---------------------------- MODULE Spec2Model ----------------------------
(***************************************************************************)
(* Q-TDFP backend: the chaotic-keystream engine (quantum_engine.py) and    *)
(* the encrypt / decrypt / delete endpoints that store its output          *)
(* (main.py).                                                              *)
(*                                                                         *)
(* Python floats are IEEE-754 binary64.  A float is modelled exactly, as a *)
(* record [m |-> mantissa, e |-> exponent] of value m * 2^e, the mantissa  *)
(* an unbounded natural held as a little-endian sequence of limbs in base  *)
(* 2^14 (TLC's integers are 32 bits wide).  Every float operation computes *)
(* the exact result and rounds it to 53 significant bits, ties to even, as *)
(* the hardware does.                                                      *)
(***************************************************************************)
EXTENDS Integers, Sequences, FiniteSets, TLC

----------------------------------------------------------------------------
(* Unbounded naturals: little-endian limbs, no leading zero limb, 0 = <<>> *)

Base == 2^14

RECURSIVE Pow2(_)
Pow2(k) == IF k = 0 THEN 1 ELSE 2 * Pow2(k - 1)

RECURSIVE Trim(_)
Trim(a) ==
    IF a = <<>> THEN <<>>
    ELSE IF a[Len(a)] = 0 THEN Trim(SubSeq(a, 1, Len(a) - 1))
    ELSE a

Rest(a) == IF a = <<>> THEN <<>> ELSE Tail(a)
Low(a)  == IF a = <<>> THEN 0 ELSE Head(a)

RECURSIVE BAddC(_, _, _)
BAddC(a, b, c) ==
    IF a = <<>> /\ b = <<>>
    THEN IF c = 0 THEN <<>> ELSE <<c>>
    ELSE LET s == Low(a) + Low(b) + c
         IN  <<s % Base>> \o BAddC(Rest(a), Rest(b), s \div Base)

BAdd(a, b) == BAddC(a, b, 0)

RECURSIVE BSubB(_, _, _)
BSubB(a, b, bw) ==
    IF a = <<>> THEN <<>>
    ELSE LET s == Head(a) - Low(b) - bw
         IN  IF s < 0
             THEN <<s + Base>> \o BSubB(Tail(a), Rest(b), 1)
             ELSE <<s>> \o BSubB(Tail(a), Rest(b), 0)

\* a - b for a >= b
BSub(a, b) == Trim(BSubB(a, b, 0))

RECURSIVE BMulSmallC(_, _, _)
BMulSmallC(a, k, c) ==
    IF a = <<>>
    THEN IF c = 0 THEN <<>> ELSE <<c>>
    ELSE LET s == Head(a) * k + c
         IN  <<s % Base>> \o BMulSmallC(Tail(a), k, s \div Base)

RECURSIVE BMul(_, _)
BMul(a, b) ==
    IF a = <<>> \/ b = <<>> THEN <<>>
    ELSE BAdd(BMulSmallC(a, Head(b), 0), <<0>> \o BMul(a, Tail(b)))

RECURSIVE BLessFrom(_, _, _)
BLessFrom(a, b, i) ==
    IF i = 0 THEN FALSE
    ELSE IF a[i] # b[i] THEN a[i] < b[i]
    ELSE BLessFrom(a, b, i - 1)

BLess(a, b) ==
    IF Len(a) # Len(b) THEN Len(a) < Len(b) ELSE BLessFrom(a, b, Len(a))

RECURSIVE Bits(_)
Bits(n) == IF n = 0 THEN 0 ELSE 1 + Bits(n \div 2)

BitLen(a) == IF a = <<>> THEN 0 ELSE 14 * (Len(a) - 1) + Bits(a[Len(a)])

ShiftL(a, k) ==
    IF a = <<>> THEN <<>>
    ELSE [i \in 1..(k \div 14) |-> 0] \o BMulSmallC(a, Pow2(k % 14), 0)

RECURSIVE DivPow2(_, _)
DivPow2(a, r) ==
    IF a = <<>> THEN <<>>
    ELSE <<(Head(a) \div Pow2(r)) + (Low(Tail(a)) % Pow2(r)) * Pow2(14 - r)>>
         \o DivPow2(Tail(a), r)

ShiftR(a, k) ==
    IF k \div 14 >= Len(a) THEN <<>>
    ELSE Trim(DivPow2(SubSeq(a, (k \div 14) + 1, Len(a)), k % 14))

TestBit(a, i) ==
    IF i \div 14 >= Len(a) THEN 0
    ELSE (a[(i \div 14) + 1] \div Pow2(i % 14)) % 2

\* some bit below position i is set
LowNonZero(a, i) ==
    \/ \E j \in 1..(i \div 14) : j <= Len(a) /\ a[j] # 0
    \/ (i \div 14) < Len(a) /\ a[(i \div 14) + 1] % Pow2(i % 14) # 0


BToInt(a) == IF a = <<>> THEN 0
             ELSE IF Len(a) = 1 THEN a[1]
             ELSE a[1] + Base * a[2]

IntToB(n) == Trim(<<n % Base, (n \div Base) % Base, n \div (Base * Base)>>)

----------------------------------------------------------------------------
(* binary64 arithmetic.  Exponent overflow and subnormals are left out:    *)
(* every float of this program lies in [2^-14, 4) or is an integer < 2^15. *)

FZero == [m |-> <<>>, e |-> 0]

\* the float nearest to M * 2^E (to M * 2^E + something below one unit of M
\* when sticky), ties to even, normalised to a 53-bit mantissa
Round53(M, E, sticky) ==
    IF M = <<>> THEN FZero
    ELSE LET n == BitLen(M)
         IN  IF n <= 53
             THEN [m |-> ShiftL(M, 53 - n), e |-> E - (53 - n)]
             ELSE LET s   == n - 53
                      q   == ShiftR(M, s)
                      st  == sticky \/ LowNonZero(M, s - 1)
                      up  == TestBit(M, s - 1) = 1 /\ (st \/ q[1] % 2 = 1)
                      q2  == IF up THEN BAdd(q, <<1>>) ELSE q
                  IN  IF BitLen(q2) = 54
                      THEN [m |-> ShiftR(q2, 1), e |-> E + s + 1]
                      ELSE [m |-> q2, e |-> E + s]

MinE(a, b) == IF a.e < b.e THEN a.e ELSE b.e
AtExp(a, e) == ShiftL(a.m, a.e - e)

FMul(a, b) == Round53(BMul(a.m, b.m), a.e + b.e, FALSE)
FAdd(a, b) ==
    IF a.m = <<>> THEN b ELSE IF b.m = <<>> THEN a
    ELSE Round53(BAdd(AtExp(a, MinE(a, b)), AtExp(b, MinE(a, b))), MinE(a, b), FALSE)
\* a - b for a >= b
FSub(a, b) ==
    IF b.m = <<>> THEN a
    ELSE Round53(BSub(AtExp(a, MinE(a, b)), AtExp(b, MinE(a, b))), MinE(a, b), FALSE)
FLess(a, b) ==
    IF b.m = <<>> THEN FALSE ELSE IF a.m = <<>> THEN TRUE
    ELSE BLess(AtExp(a, MinE(a, b)), AtExp(b, MinE(a, b)))

\* float(n) for a small natural n
IntToFloat(n) == Round53(IntToB(n), 0, FALSE)
\* int(f): truncation toward zero, for 0 <= f < 2^28
FloatToInt(f) ==
    IF f.m = <<>> THEN 0
    ELSE IF f.e >= 0 THEN BToInt(ShiftL(f.m, f.e))
    ELSE BToInt(ShiftR(f.m, 0 - f.e))

\* The literals of the source as binary64 values (float.hex()):
\* 1.0, 0.5, 3.99 = 0x1.feb851eb851ecp+1, 1.99 = 0x1.fd70a3d70a3d7p+0,
\* 0.0001 = 0x1.a36e2eb1c432dp-14, 0.9999 = 0x1.fff2e48e8a71ep-1
F_1      == [m |-> <<0, 0, 0, 1024>>, e |-> -52]
F_0_5    == [m |-> <<0, 0, 0, 1024>>, e |-> -53]
F_3_99   == [m |-> <<4588, 15073, 14417, 2042>>, e |-> -51]
F_1_99   == [m |-> <<9175, 13762, 12451, 2037>>, e |-> -52]
F_0_0001 == [m |-> <<813, 11377, 11822, 1677>>, e |-> -66]
F_0_9999 == [m |-> <<10014, 9122, 13028, 2047>>, e |-> -53]

----------------------------------------------------------------------------
(* quantum_engine.py *)

logistic_map(x) == FMul(FMul(F_3_99, x), FSub(F_1, x))

tent_map(x) ==
    IF FLess(x, F_0_5) THEN FMul(F_1_99, x) ELSE FMul(F_1_99, FSub(F_1, x))

RECURSIVE BitXor(_, _)
BitXor(a, b) ==
    IF a = 0 THEN b ELSE IF b = 0 THEN a
    ELSE (((a % 2) + (b % 2)) % 2) + 2 * BitXor(a \div 2, b \div 2)

\* The 32-bit accumulator is the pair <<high 16 bits, low 16 bits>>.
\* One round of the loop: acc = (31 * acc + ord(ch)) & 0xFFFFFFFF, then
\* acc ^= acc >> 16, which XORs the high half into the low half.
AccStep(acc, ch) ==
    LET lo == acc[2] * 31 + ch
        hi == (acc[1] * 31 + (lo \div 65536)) % 65536
    IN  <<hi, BitXor(lo % 65536, hi)>>

RECURSIVE AccFold(_, _)
AccFold(acc, password) ==
    IF password = <<>> THEN acc
    ELSE AccFold(AccStep(acc, Head(password)), Tail(password))

AccToB(acc) ==
    Trim(<<acc[2] % Base, (acc[2] \div Base) + (acc[1] % 4096) * 4, acc[1] \div 4096>>)

\* acc / 0xFFFFFFFF, correctly rounded.  For 0 < acc < 2^32 - 1 the quotient
\* is the binary fraction 0.(acc)(acc)(acc)... of 32-bit blocks, so three
\* blocks and a sticky bit decide the rounding.
DivBy0xFFFFFFFF(acc) ==
    IF acc = <<0, 0>> THEN FZero
    ELSE IF acc = <<65535, 65535>> THEN F_1
    ELSE LET a == AccToB(acc)
         IN  Round53(BAdd(BAdd(ShiftL(a, 64), ShiftL(a, 32)), a), -96, TRUE)

FMin(a, b) == IF FLess(b, a) THEN b ELSE a
FMax(a, b) == IF FLess(a, b) THEN b ELSE a

\* generate_entropy_seed, computed
EntropySeed(password) ==
    LET acc  == AccFold(<<0, 0>>, password)
        seed == DivBy0xFFFFFFFF(acc)
    IN  FMax(F_0_0001, FMin(F_0_9999, seed))

\* one round of either loop of entropy_stream on the pair <<x, y>>
StreamStep(xy) == <<logistic_map(xy[1]), tent_map(xy[2])>>

\* int(((x + y) / 2) * 256) & 0xFF; halving and scaling are exact
StreamByte(xy) ==
    LET s == FAdd(xy[1], xy[2])
    IN  FloatToInt([m |-> s.m, e |-> s.e + 7]) % 256

WarmUpRounds == 100

\* k rounds of a loop are its first k \div 2 rounds and then the rest:
\* halving keeps TLC's evaluation stack shallow, and binding p to the one
\* element of a set makes TLC evaluate the first half before the second
\* (it evaluates operator arguments lazily).
RECURSIVE Rounds(_, _)
Rounds(xy, k) ==
    IF k = 0 THEN xy
    ELSE IF k = 1 THEN StreamStep(xy)
    ELSE CHOOSE r \in {Rounds(p, k - (k \div 2)) : p \in {Rounds(xy, k \div 2)}} : TRUE

\* the bytes `length` rounds of the second loop yield, oldest first, and the
\* state they leave
EmitOne(xy) ==
    CHOOSE r \in {[out |-> <<StreamByte(next)>>, xy |-> next] :
                  next \in {StreamStep(xy)}} : TRUE

RECURSIVE Emit(_, _)

EmitMore(first, length) ==
    CHOOSE r \in {[out |-> first.out \o rest.out, xy |-> rest.xy] :
                  rest \in {Emit(first.xy, length)}} : TRUE

Emit(xy, length) ==
    IF length = 0 THEN [out |-> <<>>, xy |-> xy]
    ELSE IF length = 1 THEN EmitOne(xy)
    ELSE CHOOSE r \in {EmitMore(p, length - (length \div 2)) :
                       p \in {Emit(xy, length \div 2)}} : TRUE

----------------------------------------------------------------------------
(* The inputs of the model.  A password is the sequence of its code points. *)

PwEmpty == <<>>
PwA     == <<97>>
PwB     == <<98>>
\* "abcdefgh" and "abcdefgi"
PwLong  == <<97, 98, 99, 100, 101, 102, 103, 104>>
PwOther == <<97, 98, 99, 100, 101, 102, 103, 105>>

Passwords == {PwEmpty, PwA, PwB, PwLong, PwOther}

MaxLen  == 2
LongLen == 29
ByteVals == {0, 255}

\* one file longer than the 28 bytes that fill the checksum state once
LongData == [i \in 1..LongLen |-> IF i % 2 = 1 THEN 255 ELSE 0]

DataSet ==
    UNION {[1..n -> ByteVals] : n \in 0..MaxLen} \cup {LongData}

MaxStream == IF LongLen > 32 THEN LongLen ELSE 32

----------------------------------------------------------------------------
(* The pure functions are tabulated over the inputs of the model, so that  *)
(* TLC computes each keystream once.                                       *)

SeedTable == [p \in Passwords |-> EntropySeed(p)]

generate_entropy_seed(password) == SeedTable[password]

Seeds == {SeedTable[p] : p \in Passwords}

\* the state of the generator after its first loop (line 35 to 37)
WarmedUp == [s \in Seeds |-> Rounds(<<s, tent_map(s)>>, WarmUpRounds)]

\* what the second loop yields when it is run `length` times; each length
\* is computed on its own
StreamTable == [s \in Seeds |-> [n \in 0..MaxStream |-> Emit(WarmedUp[s], n).out]]

entropy_stream(seed, length) == StreamTable[seed][length]

\* f"{b:02x}" and bytes.hex(): two lowercase hexadecimal digits per byte
HexDigits ==
    <<"0", "1", "2", "3", "4", "5", "6", "7", "8", "9", "a", "b", "c", "d", "e", "f">>

ToHex(bytes) ==
    [i \in 1..(2 * Len(bytes)) |->
        IF i % 2 = 1 THEN HexDigits[(bytes[(i + 1) \div 2] \div 16) + 1]
        ELSE HexDigits[(bytes[i \div 2] % 16) + 1]]

\* a fingerprint whose hexadecimal digits are written low digit first
generate_entropy_fingerprint_swapped(password) ==
    LET h == ToHex(entropy_stream(generate_entropy_seed(password), 32))
    IN  [i \in 1..Len(h) |-> IF i % 2 = 1 THEN h[i + 1] ELSE h[i - 1]]

generate_entropy_fingerprint(password) ==
    ToHex(entropy_stream(generate_entropy_seed(password), 32))

\* int(logistic_map(s / 256) * 127) for a state byte s
LogisticTerm(s) ==
    FloatToInt(FMul(logistic_map(Round53(IntToB(s), -8, FALSE)), IntToFloat(127)))

LogisticTermTable == [s \in 0..255 |-> LogisticTerm(s)]

\* the body of the loop of quantum_hash for the byte b at 0-based index i
HashUpdate(state, i, b) ==
    LET p == (i % 32) + 1
        x == BitXor(state[p], b)
    IN  [state EXCEPT ![p] = (x + LogisticTermTable[x]) % 256]

\* the loop of quantum_hash over data[from..to] (1-based, inclusive)
RECURSIVE HashLoop(_, _, _, _)
HashLoop(state, data, from, to) ==
    IF to < from THEN state
    ELSE IF to = from THEN HashUpdate(state, from - 1, data[from])
    ELSE CHOOSE r \in {HashLoop(st, data, from + ((to - from + 1) \div 2), to) :
                       st \in {HashLoop(state, data, from,
                                        from + ((to - from + 1) \div 2) - 1)}} : TRUE

quantum_hash(data, password) ==
    ToHex(HashLoop(entropy_stream(generate_entropy_seed(password), 32),
                   data, 1, Len(data)))

\* struct.pack(">I", n) for 0 <= n < 2^31
PackBE(n) == <<(n \div 16777216) % 256, (n \div 65536) % 256, (n \div 256) % 256, n % 256>>

\* for b, k in zip(data, stream): out.append(b ^ k), where the generator
\* was created for `length` bytes.  zip advances the generator once per
\* byte of data and stops at the shorter of the two, so the generator's
\* second loop runs min(len(data), length) times.
XorStream(data, seed, length) ==
    LET ks == entropy_stream(seed, IF length < Len(data) THEN length ELSE Len(data))
    IN  [i \in 1..Len(ks) |-> BitXor(data[i], ks[i])]

\* an encrypt whose checksum is taken over the plaintext
quantum_encrypt_plain_hash(data, password) ==
    LET seed        == generate_entropy_seed(password)
        fingerprint == generate_entropy_fingerprint(password)
        encrypted   == PackBE(Len(data)) \o XorStream(data, seed, Len(data))
    IN  [kind |-> "triple", blob |-> encrypted, fp |-> fingerprint,
         chk |-> quantum_hash(data, password)]

quantum_encrypt(data, password) ==
    LET seed        == generate_entropy_seed(password)
        fingerprint == generate_entropy_fingerprint(password)
        encrypted   == PackBE(Len(data)) \o XorStream(data, seed, Len(data))
    IN  [kind |-> "triple", blob |-> encrypted, fp |-> fingerprint,
         chk |-> quantum_hash(encrypted, password)]

----------------------------------------------------------------------------
(* quantum_decrypt, statement by statement.  A frame holds the arguments,  *)
(* the locals and the place of one call; `result` is what the call ends    *)
(* with: the returned bytes, the returned None, or the exception raised.   *)

Pending     == [kind |-> "pending", value |-> <<>>]
None        == [kind |-> "None", value |-> <<>>]
StructError == [kind |-> "struct.error", value |-> <<>>]
Bytes(b)    == [kind |-> "bytes", value |-> b]

Frame(encrypted, password, expected_fingerprint, expected_hash) ==
    [pc |-> "fingerprint", encrypted |-> encrypted, password |-> password,
     expected_fingerprint |-> expected_fingerprint, expected_hash |-> expected_hash,
     fp_cmp |-> "unevaluated", hash_cmp |-> "unevaluated",
     original_len |-> <<>>, decrypted |-> <<>>, result |-> Pending]

Idle == [Frame(<<>>, <<>>, <<>>, <<>>) EXCEPT !.pc = "idle"]

\* struct.unpack(">I", b)[0] for four bytes b, as an unbounded natural
UnpackBE(b) ==
    BAdd(ShiftL(IntToB(b[1] * 256 + b[2]), 16), IntToB(b[3] * 256 + b[4]))

\* line 103, 104
StepFingerprint(f) ==
    IF generate_entropy_fingerprint(f.password) # f.expected_fingerprint
    THEN [f EXCEPT !.fp_cmp = "differ", !.pc = "done", !.result = None]
    ELSE [f EXCEPT !.fp_cmp = "equal", !.pc = "hash"]

\* a checksum that is computed and not compared
StepHashSkipped(f) ==
    [f EXCEPT !.hash_cmp = "equal", !.pc = "unpack"]

\* line 106, 107
StepHash(f) ==
    IF quantum_hash(f.encrypted, f.password) # f.expected_hash
    THEN [f EXCEPT !.hash_cmp = "differ", !.pc = "done", !.result = None]
    ELSE [f EXCEPT !.hash_cmp = "equal", !.pc = "unpack"]

\* line 109: encrypted[:4] holds fewer than four bytes when the blob does,
\* and struct.unpack then raises struct.error
StepUnpack(f) ==
    IF Len(f.encrypted) < 4
    THEN [f EXCEPT !.pc = "done", !.result = StructError]
    ELSE [f EXCEPT !.original_len = UnpackBE(SubSeq(f.encrypted, 1, 4)), !.pc = "xor"]

\* a reconstruction from encrypted[3:]
StepXorOffByOne(f) ==
    LET rest == SubSeq(f.encrypted, 4, Len(f.encrypted))
        n    == IF BLess(f.original_len, IntToB(Len(rest)))
                THEN BToInt(f.original_len) ELSE Len(rest)
    IN  [f EXCEPT !.decrypted = XorStream(rest, generate_entropy_seed(f.password), n),
                  !.pc = "length"]

\* line 111 to 116.  original_len may exceed what TLC can count; zip never
\* asks the generator for more bytes than encrypted[4:] holds.
StepXor(f) ==
    LET rest == SubSeq(f.encrypted, 5, Len(f.encrypted))
        n    == IF BLess(f.original_len, IntToB(Len(rest)))
                THEN BToInt(f.original_len) ELSE Len(rest)
    IN  [f EXCEPT !.decrypted = XorStream(rest, generate_entropy_seed(f.password), n),
                  !.pc = "length"]

\* line 118 to 121
StepLength(f) ==
    IF IntToB(Len(f.decrypted)) # f.original_len
    THEN [f EXCEPT !.pc = "done", !.result = None]
    ELSE [f EXCEPT !.pc = "done", !.result = Bytes(f.decrypted)]

DecStep(f) ==
    CASE f.pc = "fingerprint" -> StepFingerprint(f)
      [] f.pc = "hash"        -> StepHash(f)
      [] f.pc = "unpack"      -> StepUnpack(f)
      [] f.pc = "xor"         -> StepXor(f)
      [] f.pc = "length"      -> StepLength(f)
      [] OTHER                -> f

RECURSIVE RunToEnd(_)
RunToEnd(f) == IF f.pc = "done" THEN f ELSE RunToEnd(DecStep(f))

\* the whole call
quantum_decrypt(encrypted, password, expected_fingerprint, expected_hash) ==
    RunToEnd(Frame(encrypted, password, expected_fingerprint, expected_hash)).result

----------------------------------------------------------------------------
(* The engine under a caller: one quantum_encrypt call, then calls of      *)
(* quantum_decrypt on what it returned, on a copy with one bit flipped, or *)
(* on a truncated copy with credentials of the caller's choice.            *)

VARIABLES enc, dec

NoCall == [data |-> <<>>, password |-> <<>>, out |-> [kind |-> "none"]]

FlipBit(blob, i, k) ==
    [blob EXCEPT ![i] = BitXor(blob[i], Pow2(k))]

EngineInit ==
    /\ enc = NoCall
    /\ dec = Idle

Encrypt ==
    /\ enc = NoCall
    /\ \E d \in DataSet, p \in Passwords :
          enc' = [data |-> d, password |-> p, out |-> quantum_encrypt(d, p)]
    /\ dec' = Idle

\* the caller hands back exactly what encrypt returned, with some password
DecryptStored ==
    /\ enc.out.kind = "triple"
    /\ dec.pc = "idle"
    /\ \E p \in Passwords :
          dec' = Frame(enc.out.blob, p, enc.out.fp, enc.out.chk)
    /\ UNCHANGED enc

\* one bit of the blob was flipped in storage; the password is the right one
DecryptTampered ==
    /\ enc.out.kind = "triple"
    /\ dec.pc = "idle"
    /\ \E i \in 1..Len(enc.out.blob), k \in 0..7 :
          dec' = Frame(FlipBit(enc.out.blob, i, k), enc.password,
                       enc.out.fp, enc.out.chk)
    /\ UNCHANGED enc

\* any caller: a truncated blob, and credentials that are either the stored
\* ones or the ones that match the blob and password handed in
DecryptForged ==
    /\ enc.out.kind = "triple"
    /\ dec.pc = "idle"
    /\ \E n \in 0..(Len(enc.out.blob) - 1), p \in Passwords :
          LET b == SubSeq(enc.out.blob, 1, n)
          IN  \E fp \in {enc.out.fp, generate_entropy_fingerprint(p)},
                 chk \in {enc.out.chk, quantum_hash(b, p)} :
                    dec' = Frame(b, p, fp, chk)
    /\ UNCHANGED enc

DecFingerprint == dec.pc = "fingerprint" /\ dec' = StepFingerprint(dec) /\ UNCHANGED enc
DecHash        == dec.pc = "hash"        /\ dec' = StepHash(dec) /\ UNCHANGED enc
DecUnpack      == dec.pc = "unpack"      /\ dec' = StepUnpack(dec) /\ UNCHANGED enc
DecXor         == dec.pc = "xor"         /\ dec' = StepXor(dec) /\ UNCHANGED enc
DecLength      == dec.pc = "length"      /\ dec' = StepLength(dec) /\ UNCHANGED enc

\* the call has ended; the caller may call again
Return         == dec.pc = "done"        /\ dec' = Idle         /\ UNCHANGED enc

----------------------------------------------------------------------------
(* main.py: the endpoints over GridFS (the blobs) and db.files (the         *)
(* metadata).  A handler runs up to its next await on storage in one step. *)
(* File names and time stamps are left out.                                *)

VARIABLES gridfs, files, reqs, nextId, uploaded

MaxRequests == 3
MaxFiles    == 2

\* what clients upload: an empty file, files of 1 and 3 bytes, one of 4
ServiceFiles == {<<>>, <<255>>, <<0, 255, 0>>, <<0, 255, 0, 255>>}
ServicePasswords == {PwA, PwLong, PwOther}
FileIds == 1..MaxFiles

NoResponse == [status |-> 0, body |-> <<>>]
Response(status, body) == [status |-> status, body |-> body]

IdleRequest ==
    [op |-> "none", pc |-> "idle", file_id |-> 0, password |-> <<>>,
     data |-> <<>>, encrypted |-> [kind |-> "none"], meta |-> [kind |-> "none"],
     later |-> FALSE, response |-> NoResponse]

Put(f, k, v) == [x \in DOMAIN f \cup {k} |-> IF x = k THEN v ELSE f[x]]
Drop(f, k)   == [x \in DOMAIN f \ {k} |-> f[x]]

ServiceInit ==
    /\ gridfs = <<>>
    /\ files = <<>>
    /\ reqs = [r \in 1..MaxRequests |-> IdleRequest]
    /\ nextId = 1
    /\ uploaded = <<>>

\* requests arrive in the order of their slots
CanStart(r) ==
    /\ reqs[r].pc = "idle"
    /\ IF r = 1 THEN TRUE ELSE reqs[r - 1].pc # "idle"

Finish(r, req, status, body) ==
    reqs' = [reqs EXCEPT ![r] = [req EXCEPT !.pc = "done",
                                           !.response = Response(status, body)]]

\* encrypt_file, line 66 to 82: the checks, quantum_encrypt and the upload
\* of the blob, which gives the file its id
EncryptUpload(r) ==
    /\ CanStart(r)
    /\ \E data \in ServiceFiles, password \in ServicePasswords :
        LET req == [IdleRequest EXCEPT !.op = "encrypt", !.data = data,
                                       !.password = password]
        IN  IF Len(password) < 8
            THEN /\ Finish(r, req, 400, "Password must be at least 8 characters")
                 /\ UNCHANGED <<gridfs, nextId>>
            ELSE IF data = <<>>
            THEN /\ Finish(r, req, 400, "Empty file")
                 /\ UNCHANGED <<gridfs, nextId>>
            ELSE /\ nextId <= MaxFiles
                 /\ \E encrypted \in {quantum_encrypt(data, password)} :
                      /\ gridfs' = Put(gridfs, nextId, encrypted.blob)
                      /\ reqs' = [reqs EXCEPT ![r] =
                            [req EXCEPT !.pc = "insert", !.file_id = nextId,
                                        !.encrypted = encrypted]]
                 /\ nextId' = nextId + 1
    /\ UNCHANGED <<files, uploaded>>

\* encrypt_file, line 85 to 101: the metadata document and the response
EncryptInsert(r) ==
    /\ reqs[r].pc = "insert"
    /\ files' = Put(files, reqs[r].file_id,
                    [kind |-> "meta",
                     fingerprint |-> reqs[r].encrypted.fp,
                     hash |-> reqs[r].encrypted.chk,
                     original_size |-> Len(reqs[r].data),
                     encrypted_size |-> Len(reqs[r].encrypted.blob)])
    /\ uploaded' = Put(uploaded, reqs[r].file_id,
                       [data |-> reqs[r].data, password |-> reqs[r].password])
    /\ Finish(r, reqs[r], 200, <<reqs[r].file_id>>)
    /\ UNCHANGED <<gridfs, nextId>>

\* insert_one raises (the database is unreachable); nothing catches it
EncryptInsertFails(r) ==
    /\ reqs[r].pc = "insert"
    /\ Finish(r, reqs[r], 500, "Internal Server Error")
    /\ UNCHANGED <<gridfs, files, nextId, uploaded>>

\* delete_file, line 189 to 193: fs.delete raises NoFile for an unknown id
DeleteBlob(r) ==
    /\ CanStart(r)
    /\ \E id \in FileIds :
        LET req == [IdleRequest EXCEPT !.op = "delete", !.file_id = id]
        IN  IF id \notin DOMAIN gridfs
            THEN /\ Finish(r, req, 404, "File not found")
                 /\ UNCHANGED gridfs
            ELSE /\ gridfs' = Drop(gridfs, id)
                 /\ reqs' = [reqs EXCEPT ![r] = [req EXCEPT !.pc = "delete_meta"]]
    /\ UNCHANGED <<files, nextId, uploaded>>

\* delete_file, line 194, 195
DeleteMeta(r) ==
    /\ reqs[r].pc = "delete_meta"
    /\ files' = Drop(files, reqs[r].file_id)
    /\ Finish(r, reqs[r], 200, "deleted")
    /\ UNCHANGED <<gridfs, nextId, uploaded>>

\* decrypt_file, line 138 to 147.  `later` records that the request came
\* after the encrypt request of its file had been answered.
DecryptFind(r) ==
    /\ CanStart(r)
    /\ \E id \in FileIds, password \in ServicePasswords :
        LET req == [IdleRequest EXCEPT !.op = "decrypt", !.file_id = id,
                                       !.password = password,
                                       !.later = id \in DOMAIN uploaded]
        IN  IF Len(password) < 8
            THEN Finish(r, req, 400, "Invalid password")
            ELSE IF id \notin DOMAIN files
            THEN Finish(r, req, 404, "File not found")
            ELSE reqs' = [reqs EXCEPT ![r] =
                            [req EXCEPT !.pc = "download", !.meta = files[id]]]
    /\ UNCHANGED <<gridfs, files, nextId, uploaded>>

\* decrypt_file, line 149 to 180.  download_to_stream raises NoFile for an
\* unknown id and nothing catches it.
DecryptDownload(r) ==
    /\ reqs[r].pc = "download"
    /\ IF reqs[r].file_id \notin DOMAIN gridfs
       THEN Finish(r, reqs[r], 500, "Internal Server Error")
       ELSE LET encrypted_data == gridfs[reqs[r].file_id]
            IN  IF Len(encrypted_data) < 8
                THEN Finish(r, reqs[r], 400, "Encrypted data corrupted")
                ELSE \E decrypted \in {quantum_decrypt(encrypted_data, reqs[r].password,
                                                       reqs[r].meta.fingerprint,
                                                       reqs[r].meta.hash)} :
                        IF decrypted.kind = "None"
                        THEN Finish(r, reqs[r], 400,
                                "Decryption failed: wrong password or corrupted data")
                        ELSE IF decrypted.kind = "struct.error"
                        THEN Finish(r, reqs[r], 500, "Internal Server Error")
                        ELSE Finish(r, reqs[r], 200, decrypted.value)
    /\ UNCHANGED <<gridfs, files, nextId, uploaded>>

engineVars  == <<enc, dec>>
serviceVars == <<gridfs, files, reqs, nextId, uploaded>>
vars == <<enc, dec, gridfs, files, reqs, nextId, uploaded>>

Init == EngineInit /\ ServiceInit

Next ==
    \/ Encrypt /\ UNCHANGED serviceVars
    \/ DecryptStored /\ UNCHANGED serviceVars
    \/ DecryptTampered /\ UNCHANGED serviceVars
    \/ DecryptForged /\ UNCHANGED serviceVars
    \/ DecFingerprint /\ UNCHANGED serviceVars
    \/ DecHash /\ UNCHANGED serviceVars
    \/ DecUnpack /\ UNCHANGED serviceVars
    \/ DecXor /\ UNCHANGED serviceVars
    \/ DecLength /\ UNCHANGED serviceVars
    \/ Return /\ UNCHANGED serviceVars

Spec == Init /\ [][Next]_vars

NextService ==
    \E r \in 1..MaxRequests :
        \/ EncryptUpload(r) /\ UNCHANGED engineVars
        \/ EncryptInsert(r) /\ UNCHANGED engineVars
        \/ EncryptInsertFails(r) /\ UNCHANGED engineVars
        \/ DeleteBlob(r) /\ UNCHANGED engineVars
        \/ DeleteMeta(r) /\ UNCHANGED engineVars
        \/ DecryptFind(r) /\ UNCHANGED engineVars
        \/ DecryptDownload(r) /\ UNCHANGED engineVars

SpecService == Init /\ [][NextService]_vars

----------------------------------------------------------------------------
(* Properties of the engine and of the endpoints *)

\* the call that has ended was made with exactly what encrypt returned
StoredCall ==
    /\ enc.out.kind = "triple"
    /\ dec.pc = "done"
    /\ dec.encrypted = enc.out.blob
    /\ dec.expected_fingerprint = enc.out.fp
    /\ dec.expected_hash = enc.out.chk

\* C1: decrypting what encrypt returned for non-empty data, with the same
\* password (of at least one character), returns exactly the data.
RoundTrip ==
    (StoredCall /\ Len(enc.data) >= 1 /\ Len(enc.password) >= 1
        /\ dec.password = enc.password)
    => dec.result = Bytes(enc.data)

RoundTripWitness ==
    /\ StoredCall /\ Len(enc.data) = LongLen /\ enc.password = PwLong
    /\ dec.password = enc.password
    /\ dec.result = Bytes(enc.data)

\* C2: decrypting what encrypt returned for non-empty data with any other
\* password returns None.
WrongPasswordRejected ==
    (StoredCall /\ Len(enc.data) >= 1 /\ dec.password # enc.password)
    => dec.result = None

\* the call that has ended was made with the right password, the stored
\* fingerprint and checksum, and the blob with bit k of its byte i flipped
TamperedCall(i, k) ==
    /\ enc.out.kind = "triple"
    /\ dec.pc = "done"
    /\ dec.password = enc.password
    /\ dec.expected_fingerprint = enc.out.fp
    /\ dec.expected_hash = enc.out.chk
    /\ dec.encrypted = FlipBit(enc.out.blob, i, k)

FlipPlaces ==
    IF enc.out.kind = "triple" /\ dec.pc = "done"
            /\ Len(dec.encrypted) = Len(enc.out.blob)
    THEN (1..Len(enc.out.blob)) \X (0..7)
    ELSE {}

\* C3 as claimed: every single-bit flip of the blob makes decrypt return
\* None.
TamperDetected ==
    \A ik \in FlipPlaces : TamperedCall(ik[1], ik[2]) => dec.result = None

\* the checksum state of the position byte i is folded into, after the
\* whole blob
SlotAfter(blob, password, i) ==
    HashLoop(entropy_stream(generate_entropy_seed(password), 32),
             blob, 1, Len(blob))[((i - 1) % 32) + 1]

\* what the length prefix of a blob says, for a prefix below 2^31
PrefixLen(blob) ==
    ((blob[1] * 256 + blob[2]) * 256 + blob[3]) * 256 + blob[4]

TamperOutcome(i, k) ==
    LET blob    == enc.out.blob
        flipped == FlipBit(blob, i, k)
        collide == SlotAfter(blob, enc.password, i) = SlotAfter(flipped, enc.password, i)
        grows   == i <= 4 /\ (blob[i] \div Pow2(k)) % 2 = 0
    IN  IF ~collide \/ grows THEN dec.result = None
        ELSE IF i >= 5 THEN dec.result = Bytes(FlipBit(enc.data, i - 4, k))
        ELSE dec.result = Bytes(SubSeq(enc.data, 1, PrefixLen(flipped)))

\* C3 as amended: a single-bit flip makes decrypt return None unless the
\* checksum update folds the original and the flipped byte to the same
\* final state of their position and the flip does not raise the length
\* prefix; then decrypt returns the data with that bit flipped (or, for a
\* lowered length prefix, the data cut to that length).
TamperDetectedUnlessCollision ==
    \A ik \in FlipPlaces : TamperedCall(ik[1], ik[2]) => TamperOutcome(ik[1], ik[2])

TamperWitness ==
    \E ik \in FlipPlaces :
        /\ TamperedCall(ik[1], ik[2])
        /\ ik[1] >= 5
        /\ Len(enc.data) = LongLen
        /\ dec.hash_cmp = "differ"
        /\ dec.result = None

\* C4: quantum_encrypt on empty data signals EmptyInput and returns no
\* triple.
EmptyInputSignalled ==
    (enc.out.kind # "none" /\ enc.data = <<>>) => enc.out.kind = "EmptyInput"

\* C5: quantum_decrypt on a blob of fewer than four bytes returns None,
\* whatever the password, fingerprint and checksum.
ShortBlobFails ==
    (dec.pc = "done" /\ Len(dec.encrypted) < 4) => dec.result = None

\* C6: the blob encrypt returns for n > 0 bytes of data has 4 + n bytes, the
\* first four are n in big-endian order, byte 4 + i is data[i] XOR the i-th
\* byte of the keystream of length n, and the checksum is the keyed checksum
\* of that whole blob.
BlobLayout ==
    (enc.out.kind = "triple" /\ Len(enc.data) > 0) =>
        LET n    == Len(enc.data)
            blob == enc.out.blob
            ks   == entropy_stream(generate_entropy_seed(enc.password), n)
        IN  /\ Len(blob) = 4 + n
            /\ PrefixLen(blob) = n
            /\ \A i \in 1..n : blob[4 + i] = BitXor(enc.data[i], ks[i])
            /\ enc.out.chk = quantum_hash(blob, enc.password)

BlobLayoutWitness ==
    /\ enc.out.kind = "triple"
    /\ Len(enc.data) = LongLen
    /\ Len(enc.out.blob) = LongLen + 4

\* the order of quantum_decrypt: the length prefix is read and bytes are
\* reconstructed only after both comparisons were evaluated and found equal,
\* bytes are returned only if both held, and the paths that fail on the
\* fingerprint, the checksum or the length all end with the one value None
ReconstructOnlyAfterChecks ==
    /\ (dec.pc \in {"unpack", "xor", "length"}
            \/ dec.original_len # <<>> \/ dec.decrypted # <<>>)
        => (dec.fp_cmp = "equal" /\ dec.hash_cmp = "equal")
    /\ dec.result.kind = "bytes" =>
        /\ dec.fp_cmp = "equal" /\ dec.hash_cmp = "equal"
        /\ generate_entropy_fingerprint(dec.password) = dec.expected_fingerprint
        /\ quantum_hash(dec.encrypted, dec.password) = dec.expected_hash
    /\ (dec.pc = "done" /\ (\/ dec.fp_cmp = "differ"
                           \/ dec.hash_cmp = "differ"
                           \/ /\ Len(dec.encrypted) >= 4
                              /\ dec.hash_cmp = "equal"
                              /\ IntToB(Len(dec.decrypted)) # dec.original_len))
        => dec.result = None

\* C7: in every call of quantum_decrypt the fingerprint comparison and the
\* checksum comparison are both evaluated, and before the length prefix is
\* read or a byte is reconstructed; bytes are returned only if both held;
\* every failing path returns the one value None.
CheckBeforeReconstruct ==
    /\ ReconstructOnlyAfterChecks
    /\ dec.pc = "done" =>
          (dec.fp_cmp # "unevaluated" /\ dec.hash_cmp # "unevaluated")

AllAnswered == \A r \in 1..MaxRequests : reqs[r].pc \in {"idle", "done"}

\* C8: once every request has been answered, a file has a metadata document
\* exactly if it has a blob.
PersistedAsUnit ==
    AllAnswered => DOMAIN files = DOMAIN gridfs

\* C9: a decrypt request that comes after its file's encrypt request was
\* answered, with the same password and the file still stored, is answered
\* with the bytes that were uploaded.
ServiceRoundTrip ==
    \A r \in 1..MaxRequests :
        (/\ reqs[r].op = "decrypt" /\ reqs[r].pc = "done" /\ reqs[r].later
         /\ reqs[r].file_id \in DOMAIN files \cap DOMAIN gridfs
         /\ reqs[r].password = uploaded[reqs[r].file_id].password)
        => reqs[r].response = Response(200, uploaded[reqs[r].file_id].data)

HexValue(c) == (CHOOSE v \in 1..16 : HexDigits[v] = c) - 1

\* bytes.fromhex
FromHex(h) ==
    [i \in 1..(Len(h) \div 2) |-> 16 * HexValue(h[2 * i - 1]) + HexValue(h[2 * i])]

\* C10: the bytes of the fingerprint are the 32-byte keystream, the first
\* bytes of the keystream encrypt XORs the data with, and the checksum of
\* the empty input; so the first min(32, n) bytes of the data are the blob
\* XOR the fingerprint.
FingerprintIsKeystream ==
    enc.out.kind = "triple" =>
        LET n    == Len(enc.data)
            m    == IF n < 32 THEN n ELSE 32
            seed == generate_entropy_seed(enc.password)
            fp   == FromHex(enc.out.fp)
        IN  /\ fp = entropy_stream(seed, 32)
            /\ \A i \in 1..m : fp[i] = entropy_stream(seed, n)[i]
            /\ quantum_hash(<<>>, enc.password) = enc.out.fp
            /\ \A i \in 1..m : BitXor(enc.out.blob[4 + i], fp[i]) = enc.data[i]

FingerprintIsKeystreamWitness ==
    /\ enc.out.kind = "triple"
    /\ Len(enc.data) = LongLen
    /\ \A i \in 1..(IF LongLen < 32 THEN LongLen ELSE 32) :
          BitXor(enc.out.blob[4 + i], FromHex(enc.out.fp)[i]) = enc.data[i]

============================================================================
